---- MODULE Spec2Model ----
(***************************************************************************)
(* Model of src/processors/custom_processor.rs: the per-batch pipeline of  *)
(* CustomTransactionProcessor (flatten the transaction details, collapse   *)
(* and order the table-keyed entities, write inside one storage            *)
(* transaction with a sanitize-and-retry path, publish the transaction     *)
(* records).                                                               *)
(***************************************************************************)
EXTENDS Integers, Sequences, FiniteSets, TLC

(***************************************************************************)
(* Bounds of the model.                                                    *)
(***************************************************************************)
MaxTxns == 2          \* transactions per call of the driver
MaxDriverWsc == 2     \* write-set-change details per call of the driver
MaxWsc == 3           \* write-set-change details in the collapse specification
MaxDetails == 3       \* transaction details in the details specification
MaxSigs == 2          \* signatures of one user transaction
NumWorkers == 2       \* workers calling the driver concurrently
PoolSize == 1         \* connections of the pool
MaxReapply == 1       \* repetitions of a call with the same input

(***************************************************************************)
(* Data.  A string is a sequence of characters; character 0 is the NUL     *)
(* byte the storage encoding rejects.  Table handles and key hashes are    *)
(* hex strings, modelled by totally ordered numbers.                       *)
(***************************************************************************)
NAME == "custom_processor"

NUL == 0
Strings == {<<1>>, <<2>>, <<1, NUL>>}
Handles == {1, 2}
KeyHashes == {1, 2}

SeqsUpTo(S, n) == UNION {[1..k -> S] : k \in 0..n}

\* WriteSetChangeDetail::Module / Resource / Table (the three variants).
ModuleDetail(d) == [kind |-> "Module", module |-> [bytecode |-> d]]
ResourceDetail(d) == [kind |-> "Resource", resource |-> [data |-> d]]
TableDetail(h, k, v, meta) ==
    [kind |-> "Table",
     item |-> [table_handle |-> h, key_hash |-> k, decoded_value |-> v],
     current_item |-> [table_handle |-> h, key_hash |-> k, decoded_value |-> v],
     metadata |-> meta]

\* Option<TableMetadata>: <<>> is None, <<m>> is Some(m).
None == <<>>
Some(m) == <<m>>
TableMeta(h, t) == [handle |-> h, key_type |-> t]

(***************************************************************************)
(* HashMap, as process_transactions uses it.                               *)
(***************************************************************************)
EmptyMap == [k \in {} |-> 0]

\* Mutant: HashMap::entry(k).or_insert(v), the first write wins.
HashMapInsertFirstWins(m, k, v) ==
    IF k \in DOMAIN m THEN m
    ELSE [x \in DOMAIN m \cup {k} |-> IF x = k THEN v ELSE m[x]]

\* HashMap::insert(k, v): the value of an existing key is replaced.
HashMapInsert(m, k, v) ==
    [x \in DOMAIN m \cup {k} |-> IF x = k THEN v ELSE m[x]]

\* HashMap::into_values(): every value once, in an unspecified order.
IntoValues(m) ==
    LET n == Cardinality(DOMAIN m)
    IN  {[i \in 1..n |-> m[p[i]]] :
            p \in {q \in [1..n -> DOMAIN m] : \A i, j \in 1..n : q[i] = q[j] => i = j}}

(***************************************************************************)
(* Vec::sort_by: a stable sort; the two comparators of lines 118-120.      *)
(***************************************************************************)
\* (&a.table_handle, &a.key_hash).cmp(&(&b.table_handle, &b.key_hash)) == Less
PkLess(a, b) ==
    \/ a.table_handle < b.table_handle
    \/ a.table_handle = b.table_handle /\ a.key_hash < b.key_hash

\* a.handle.cmp(&b.handle) == Less
HandleLess(a, b) == a.handle < b.handle

Less(a, b, by) == IF by = "pk" THEN PkLess(a, b) ELSE HandleLess(a, b)

\* Insertion of x into the sorted s, after every element that is not greater.
InsertSorted(s, x, by) ==
    LET pos == Cardinality({i \in 1..Len(s) : ~Less(x, s[i], by)})
    IN  SubSeq(s, 1, pos) \o <<x>> \o SubSeq(s, pos + 1, Len(s))

\* Mutant: the values are left in the order into_values() yielded them.
SortByKeepsOrder(s, by) == s

SortBy(s, by) ==
    LET sorted[n \in 0..Len(s)] ==
            IF n = 0 THEN <<>> ELSE InsertSorted(sorted[n - 1], s[n], by)
    IN  sorted[Len(s)]

(***************************************************************************)
(* The loop over wsc_details (lines 88-111): the state after the first n   *)
(* details.                                                                *)
(***************************************************************************)
RECURSIVE WscLoop(_, _)
WscLoop(details, n) ==
    IF n = 0 THEN
        [move_modules |-> <<>>, move_resources |-> <<>>, table_items |-> <<>>,
         current_table_items |-> EmptyMap, table_metadata |-> EmptyMap]
    ELSE
        LET acc == WscLoop(details, n - 1)
            detail == details[n]
        IN  CASE detail.kind = "Module" ->
                    [acc EXCEPT !.move_modules = Append(@, detail.module)]
              [] detail.kind = "Resource" ->
                    [acc EXCEPT !.move_resources = Append(@, detail.resource)]
              [] detail.kind = "Table" ->
                    LET withItem ==
                            [acc EXCEPT
                                !.table_items = Append(@, detail.item),
                                !.current_table_items =
                                    HashMapInsert(@,
                                        <<detail.current_item.table_handle,
                                          detail.current_item.key_hash>>,
                                        detail.current_item)]
                    IN  IF detail.metadata # None
                        THEN [withItem EXCEPT
                                !.table_metadata =
                                    HashMapInsert(@, detail.metadata[1].handle, detail.metadata[1])]
                        ELSE withItem

\* Mutant: table_items is read back from the collapsed map.
CollapseResultsItemsFromMap(details) ==
    LET acc == WscLoop(details, Len(details))
    IN  {[move_modules |-> acc.move_modules,
          move_resources |-> acc.move_resources,
          table_items |-> SortBy(ctiOrder, "pk"),
          current_table_items |-> SortBy(ctiOrder, "pk"),
          table_metadata |-> SortBy(metaOrder, "handle")] :
            ctiOrder \in IntoValues(acc.current_table_items),
            metaOrder \in IntoValues(acc.table_metadata)}

\* Lines 88-120: the five write-set-change batches; ctiOrder and metaOrder are
\* the orders in which into_values() yielded the two maps.
CollapseResults(details) ==
    LET acc == WscLoop(details, Len(details))
    IN  {[move_modules |-> acc.move_modules,
          move_resources |-> acc.move_resources,
          table_items |-> acc.table_items,
          current_table_items |-> SortBy(ctiOrder, "pk"),
          table_metadata |-> SortBy(metaOrder, "handle")] :
            ctiOrder \in IntoValues(acc.current_table_items),
            metaOrder \in IntoValues(acc.table_metadata)}

(***************************************************************************)
(* The loop over txn_details (lines 74-87).                                *)
(***************************************************************************)
\* Mutant: the signatures of a transaction are put in front of the batch.
RECURSIVE TxnLoopSigsInFront(_, _)
TxnLoopSigsInFront(details, n) ==
    IF n = 0 THEN
        [signatures |-> <<>>, user_transactions |-> <<>>,
         block_metadata_transactions |-> <<>>]
    ELSE
        LET acc == TxnLoopSigsInFront(details, n - 1)
            detail == details[n]
        IN  CASE detail.kind = "User" ->
                    [acc EXCEPT !.signatures = detail.sigs \o @,
                                !.user_transactions = Append(@, detail.user_txn)]
              [] detail.kind = "BlockMetadata" ->
                    [acc EXCEPT !.block_metadata_transactions = Append(@, detail.bmt)]

RECURSIVE TxnLoop(_, _)
TxnLoop(details, n) ==
    IF n = 0 THEN
        [signatures |-> <<>>, user_transactions |-> <<>>,
         block_metadata_transactions |-> <<>>]
    ELSE
        LET acc == TxnLoop(details, n - 1)
            detail == details[n]
        IN  CASE detail.kind = "User" ->
                    [acc EXCEPT !.signatures = @ \o detail.sigs,
                                !.user_transactions = Append(@, detail.user_txn)]
              [] detail.kind = "BlockMetadata" ->
                    [acc EXCEPT !.block_metadata_transactions = Append(@, detail.bmt)]

\* The eleven batches handed to insert_to_db (lines 123-140).
HandedBatches(txns, txn_details, events, wscs, collapsed) ==
    LET t == TxnLoop(txn_details, Len(txn_details))
    IN  [txns |-> txns,
         user_transactions |-> t.user_transactions,
         signatures |-> t.signatures,
         block_metadata_transactions |-> t.block_metadata_transactions,
         events |-> events,
         wscs |-> wscs,
         move_modules |-> collapsed.move_modules,
         move_resources |-> collapsed.move_resources,
         table_items |-> collapsed.table_items,
         current_table_items |-> collapsed.current_table_items,
         table_metadata |-> collapsed.table_metadata]

BatchNames ==
    {"txns", "user_transactions", "signatures", "block_metadata_transactions",
     "events", "wscs", "move_modules", "move_resources", "table_items",
     "current_table_items", "table_metadata"}

EmptyBatches == [f \in BatchNames |-> <<>>]

(***************************************************************************)
(* TransactionModel::from_transactions: the decomposition of the raw       *)
(* transactions of a range into records and details, one detail per        *)
(* transaction and per write-set change.                                   *)
(***************************************************************************)
from_transactions(start, raw, wscd) ==
    [txns |-> [i \in 1..Len(raw) |->
                  [version |-> start + i - 1, payload |-> raw[i].payload]],
     txn_details |-> [i \in 1..Len(raw) |->
                  IF raw[i].kind = "User"
                  THEN [kind |-> "User",
                        user_txn |-> [version |-> start + i - 1, sender |-> raw[i].payload],
                        sigs |-> <<[version |-> start + i - 1, signature |-> raw[i].payload]>>]
                  ELSE [kind |-> "BlockMetadata",
                        bmt |-> [version |-> start + i - 1, proposer |-> raw[i].payload]]],
     events |-> [i \in 1..Len(raw) |->
                  [version |-> start + i - 1, data |-> raw[i].payload]],
     wscs |-> [i \in 1..Len(wscd) |-> [index |-> i, type |-> wscd[i].kind]],
     wsc_details |-> wscd]

(***************************************************************************)
(* clean_data_for_db(items, true): the NUL characters are removed from     *)
(* every string of every item.                                             *)
(***************************************************************************)
CleanStr(str) == SelectSeq(str, LAMBDA ch : ch # NUL)

StringFields ==
    {"payload", "sender", "signature", "proposer", "data", "bytecode",
     "decoded_value", "key_type"}

CleanItem(item) ==
    [f \in DOMAIN item |-> IF f \in StringFields THEN CleanStr(item[f]) ELSE item[f]]

clean_data_for_db(items) == [i \in 1..Len(items) |-> CleanItem(items[i])]

\* Mutant: the transaction batch is left out of the sanitize pass.
SanitizeSkipsTxns(b) ==
    [f \in BatchNames |-> IF f = "txns" THEN b[f] ELSE clean_data_for_db(b[f])]

\* Lines 218-228: every one of the eleven batches is sanitized.
SanitizeAll(b) == [f \in BatchNames |-> clean_data_for_db(b[f])]

(***************************************************************************)
(* The store: a set of rows; a row is an entity in the table of its batch. *)
(***************************************************************************)
RowsOf(b) == UNION {{[table |-> f, row |-> b[f][i]] : i \in 1..Len(b[f])} : f \in BatchNames}

PriorRow == [table |-> "txns", row |-> [version |-> 100, payload |-> <<1>>]]

(***************************************************************************)
(* State.                                                                  *)
(***************************************************************************)
VARIABLES
    pc,             \* position of the call
    start_version,  \* arguments of process_transactions
    end_version,
    txn_details,    \* the transaction details of the call
    wsc_details,    \* the write-set-change details of the call
    handed,         \* the batches process_transactions hands to insert_to_db
    batches,        \* the batches insert_to_db holds (sanitized before the retry)
    attempt,        \* number of the write attempt (1: initial, 2: retry)
    store,          \* rows durably written
    store0,         \* the store when process_transactions was called
    pending,        \* rows written inside the open storage transaction
    txOpen,         \* a storage transaction is open on the connection
    tx_result,      \* what insert_to_db returned
    result,         \* what process_transactions returned
    sendCalls,      \* the calls of publisher.send_txs, with the sink's outcome
    log,            \* the finished write attempts, with their outcome
    shadow,         \* a second run, same storage outcomes, own sink outcomes
    sinkDiffered,   \* the sink outcomes of the two runs have differed
    calls,          \* number of calls made with the same input
    firstStore,     \* the store when the first of these calls had returned
    workers,        \* the runs of the concurrent workers
    pool,           \* idle connections of the pool
    held            \* connections each worker holds

\* The variables of one call of the driver.
callVars == <<pc, start_version, end_version, txn_details, wsc_details, handed,
              batches, attempt, store, store0, pending, txOpen, tx_result, result,
              sendCalls, log, shadow, sinkDiffered>>
reapplyVars == <<calls, firstStore>>
poolVars == <<workers, pool, held>>

\* The arguments of the call and what is built from them before the write.
argVars == <<start_version, end_version, txn_details, wsc_details, handed>>

vars == <<callVars, reapplyVars, poolVars>>

NoResult == [ok |-> FALSE, processor_name |-> "", start_version |-> 0,
             end_version |-> 0, cause |-> "unset"]

\* The state of one run of the driver, as a record.
Run ==
    [pc |-> pc, batches |-> batches, attempt |-> attempt, store |-> store,
     pending |-> pending, txOpen |-> txOpen, tx_result |-> tx_result,
     result |-> result, sendCalls |-> sendCalls, log |-> log]

SetRun(c) ==
    /\ pc' = c.pc
    /\ batches' = c.batches
    /\ attempt' = c.attempt
    /\ store' = c.store
    /\ pending' = c.pending
    /\ txOpen' = c.txOpen
    /\ tx_result' = c.tx_result
    /\ result' = c.result
    /\ sendCalls' = c.sendCalls
    /\ log' = c.log

IdleRun(st) ==
    [pc |-> "idle", batches |-> EmptyBatches, attempt |-> 0, store |-> st,
     pending |-> {}, txOpen |-> FALSE, tx_result |-> "unset",
     result |-> NoResult, sendCalls |-> <<>>, log |-> <<>>]

(***************************************************************************)
(* The steps of insert_to_db and process_transactions, on a run c.         *)
(***************************************************************************)
\* Publisher::send_txs(items): the call and the sink's outcome are recorded.
send_txs(c, items, sinkOk) ==
    [c EXCEPT !.sendCalls = Append(@, [records |-> items, ok |-> sinkOk,
                                        txOpen |-> c.txOpen, attempt |-> c.attempt])]

\* Mutant: a sink failure is returned as an error of the insert.
InsertTransactionsChecksSink(sinkOk) == IF sinkOk THEN "Ok" ELSE "sink_failed"

\* Lines 293-313: send_txs's outcome is not consulted; Ok(()) is returned.
insert_transactions_result(sinkOk) == "Ok"

\* Mutant: the transaction rows are written on an auto-commit connection.
InsertToDbImplAutoCommit(c, sinkOk) ==
    [c |-> [send_txs(c, c.batches.txns, sinkOk) EXCEPT
                !.store = @ \cup RowsOf([EmptyBatches EXCEPT !.txns = c.batches.txns])],
     res |-> insert_transactions_result(sinkOk)]

\* Mutant: the retry does not publish the records again.
InsertToDbImplSendsOnce(c, sinkOk) ==
    [c |-> IF c.attempt = 1 THEN send_txs(c, c.batches.txns, sinkOk) ELSE c,
     res |-> insert_transactions_result(sinkOk)]

\* Lines 257-291: insert_transactions publishes the transaction records; the
\* ten other inserts are commented out, so no row is written on the connection.
insert_to_db_impl(c, sinkOk) ==
    [c |-> send_txs(c, c.batches.txns, sinkOk),
     res |-> insert_transactions_result(sinkOk)]

\* Mutant: the first failure is returned without a retry.
AfterFailureGivesUp(n) == "return"

\* Mutant: a failed retry is retried again.
AfterFailureRetriesTwice(n) == IF n <= 2 THEN "sanitize" ELSE "return"

\* Lines 216-254: where insert_to_db goes when attempt n has failed.
AfterFailure(n) == IF n = 1 THEN "sanitize" ELSE "return"

\* Mutant: the error of the first attempt is kept and returned.
InsertToDbErrorFirst(firstCause, retryCause) == firstCause

\* Lines 217, 230-253: Err(_) drops the first error; the retry's is returned.
insert_to_db_error(firstCause, retryCause) == retryCause

\* The attempt ends without a commit: the storage transaction is rolled back.
AttemptFailed(c, cause) ==
    LET d == [c EXCEPT !.txOpen = FALSE, !.pending = {},
                       !.log = Append(@, [attempt |-> c.attempt, outcome |-> "failed",
                                          cause |-> cause, batches |-> c.batches])]
    IN  IF AfterFailure(c.attempt) = "sanitize"
        THEN [d EXCEPT !.pc = "sanitize"]
        ELSE [d EXCEPT !.pc = "return",
                       !.tx_result = insert_to_db_error(d.log[1].cause, cause)]

\* build_transaction().read_write().run(..): BEGIN (lines 192-195, 230-232).
BeginTransaction(c, dbOk) ==
    IF dbOk THEN [c EXCEPT !.pc = "body", !.txOpen = TRUE, !.pending = {}]
    ELSE AttemptFailed(c, "begin_failed")

\* The closure of run(..) (lines 195-215, 232-252).
TransactionBody(c, sinkOk) ==
    LET r == insert_to_db_impl(c, sinkOk)
    IN  IF r.res = "Ok" THEN [r.c EXCEPT !.pc = "commit"]
        ELSE AttemptFailed(r.c, r.res)

\* run(..) after the closure returned Ok: COMMIT.
CommitTransaction(c, dbOk) ==
    IF dbOk
    THEN [c EXCEPT !.store = @ \cup c.pending, !.pending = {}, !.txOpen = FALSE,
                   !.log = Append(@, [attempt |-> c.attempt, outcome |-> "committed",
                                      cause |-> "none", batches |-> c.batches]),
                   !.tx_result = "Ok", !.pc = "return"]
    ELSE AttemptFailed(c, "commit_failed")

\* Lines 217-229: the Err arm of the first attempt.
SanitizeAndRetry(c) ==
    [c EXCEPT !.batches = SanitizeAll(@), !.attempt = c.attempt + 1, !.pc = "begin"]

\* Mutant: the error is built from the versions in the wrong order.
ResultSwapsVersions(txr, name, sv, ev) ==
    [ok |-> txr = "Ok", processor_name |-> name, start_version |-> ev,
     end_version |-> sv, cause |-> IF txr = "Ok" THEN "none" ELSE txr]

\* Mutant: the result of insert_to_db is not consulted.
ResultAlwaysOk(txr, name, sv, ev) ==
    [ok |-> TRUE, processor_name |-> name, start_version |-> sv,
     end_version |-> ev, cause |-> "none"]

\* Lines 141-153: ProcessingResult::new or TransactionCommitError.
process_transactions_result(txr, name, sv, ev) ==
    IF txr = "Ok"
    THEN [ok |-> TRUE, processor_name |-> name, start_version |-> sv,
          end_version |-> ev, cause |-> "none"]
    ELSE [ok |-> FALSE, processor_name |-> name, start_version |-> sv,
          end_version |-> ev, cause |-> txr]

ReturnResult(c, sv, ev) ==
    [c EXCEPT !.result = process_transactions_result(c.tx_result, NAME, sv, ev),
              !.pc = "done"]

\* One step of a run from its own position.
StepRun(c, dbOk, sinkOk, sv, ev) ==
    CASE c.pc = "begin" -> BeginTransaction(c, dbOk)
      [] c.pc = "body" -> TransactionBody(c, sinkOk)
      [] c.pc = "commit" -> CommitTransaction(c, dbOk)
      [] c.pc = "sanitize" -> SanitizeAndRetry(c)
      [] c.pc = "return" -> ReturnResult(c, sv, ev)
      [] OTHER -> c

\* The second run records no sink calls: only what the driver does and reports.
ShadowStep(dbOk, sinkOk) ==
    [StepRun(shadow, dbOk, sinkOk, start_version, end_version) EXCEPT !.sendCalls = <<>>]

(***************************************************************************)
(* The driver specification.                                               *)
(***************************************************************************)
RawChoices ==
    {[kind |-> "User", payload |-> <<1, NUL>>],
     [kind |-> "BlockMetadata", payload |-> <<2>>]}

DriverWscChoices ==
    {ModuleDetail(<<1, NUL>>),
     ResourceDetail(<<2>>),
     TableDetail(1, 1, <<1>>, Some(TableMeta(1, <<1, NUL>>))),
     TableDetail(1, 1, <<1, NUL>>, None),
     TableDetail(2, 1, <<2>>, None)}

StartVersions == {0, 7}

Init ==
    /\ pc = "idle"
    /\ start_version = 0
    /\ end_version = 0
    /\ wsc_details = <<>>
    /\ handed = EmptyBatches
    /\ batches = EmptyBatches
    /\ attempt = 0
    /\ store \in {{}, {PriorRow}}
    /\ store0 = store
    /\ pending = {}
    /\ txOpen = FALSE
    /\ tx_result = "unset"
    /\ result = NoResult
    /\ sendCalls = <<>>
    /\ log = <<>>
    /\ shadow = IdleRun(store)
    /\ sinkDiffered = FALSE
    /\ txn_details = <<>>
    /\ calls = 0
    /\ firstStore = {}
    /\ workers = <<>>
    /\ pool = 0
    /\ held = <<>>

\* process_transactions up to the call of insert_to_db (lines 65-140).
Call ==
    /\ pc = "idle"
    /\ \E sv \in StartVersions, raw \in SeqsUpTo(RawChoices, MaxTxns),
          wscd \in SeqsUpTo(DriverWscChoices, MaxDriverWsc) :
          LET d == from_transactions(sv, raw, wscd)
          IN  \E collapsed \in CollapseResults(d.wsc_details) :
                LET b == HandedBatches(d.txns, d.txn_details, d.events, d.wscs, collapsed)
                    c == [IdleRun(store) EXCEPT !.pc = "begin", !.attempt = 1, !.batches = b]
                IN  /\ start_version' = sv
                    /\ end_version' = IF Len(raw) = 0 THEN sv ELSE sv + Len(raw) - 1
                    /\ txn_details' = d.txn_details
                    /\ wsc_details' = d.wsc_details
                    /\ handed' = b
                    /\ SetRun(c)
                    /\ shadow' = c
    /\ UNCHANGED <<store0, sinkDiffered, reapplyVars, poolVars>>

Begin ==
    /\ pc = "begin"
    /\ \E dbOk \in BOOLEAN :
          /\ SetRun(BeginTransaction(Run, dbOk))
          /\ shadow' = ShadowStep(dbOk, TRUE)
    /\ UNCHANGED <<argVars, store0, sinkDiffered, reapplyVars, poolVars>>

Body ==
    /\ pc = "body"
    /\ \E sinkOk \in BOOLEAN, shadowSinkOk \in BOOLEAN :
          /\ SetRun(TransactionBody(Run, sinkOk))
          /\ shadow' = ShadowStep(TRUE, shadowSinkOk)
          /\ sinkDiffered' = (sinkDiffered \/ sinkOk # shadowSinkOk)
    /\ UNCHANGED <<argVars, store0, reapplyVars, poolVars>>

Commit ==
    /\ pc = "commit"
    /\ \E dbOk \in BOOLEAN :
          /\ SetRun(CommitTransaction(Run, dbOk))
          /\ shadow' = ShadowStep(dbOk, TRUE)
    /\ UNCHANGED <<argVars, store0, sinkDiffered, reapplyVars, poolVars>>

Sanitize ==
    /\ pc = "sanitize"
    /\ SetRun(SanitizeAndRetry(Run))
    /\ shadow' = ShadowStep(TRUE, TRUE)
    /\ UNCHANGED <<argVars, store0, sinkDiffered, reapplyVars, poolVars>>

Return ==
    /\ pc = "return"
    /\ SetRun(ReturnResult(Run, start_version, end_version))
    /\ shadow' = ShadowStep(TRUE, TRUE)
    /\ UNCHANGED <<argVars, store0, sinkDiffered, reapplyVars, poolVars>>

Next == Call \/ Begin \/ Body \/ Commit \/ Sanitize \/ Return

Spec == Init /\ [][Next]_vars

(***************************************************************************)
(* The driver on a few inputs: the empty range, one user transaction with  *)
(* a table write, two transactions with two table writes.                  *)
(***************************************************************************)
SmallInputs ==
    {[sv |-> 0, raw |-> <<>>, wscd |-> <<>>],
     [sv |-> 0,
      raw |-> <<[kind |-> "User", payload |-> <<1, NUL>>]>>,
      wscd |-> <<TableDetail(1, 1, <<1, NUL>>, None)>>],
     [sv |-> 7,
      raw |-> <<[kind |-> "BlockMetadata", payload |-> <<2>>],
                [kind |-> "User", payload |-> <<1, NUL>>]>>,
      wscd |-> <<TableDetail(2, 1, <<2>>, None),
                 TableDetail(1, 1, <<1>>, Some(TableMeta(1, <<1, NUL>>)))>>]}

\* process_transactions up to the call of insert_to_db (lines 65-140).
SmallCall ==
    /\ pc = "idle"
    /\ \E in \in SmallInputs :
          LET d == from_transactions(in.sv, in.raw, in.wscd)
          IN  \E collapsed \in CollapseResults(d.wsc_details) :
                LET b == HandedBatches(d.txns, d.txn_details, d.events, d.wscs, collapsed)
                    c == [IdleRun(store) EXCEPT !.pc = "begin", !.attempt = 1, !.batches = b]
                IN  /\ start_version' = in.sv
                    /\ end_version' = IF Len(in.raw) = 0 THEN in.sv ELSE in.sv + Len(in.raw) - 1
                    /\ txn_details' = d.txn_details
                    /\ wsc_details' = d.wsc_details
                    /\ handed' = b
                    /\ SetRun(c)
                    /\ shadow' = c
    /\ UNCHANGED <<store0, sinkDiffered, reapplyVars, poolVars>>

\* The sequential code runs on: every step that can be taken is taken.
NextSmall == SmallCall \/ Begin \/ Body \/ Commit \/ Sanitize \/ Return

FairSpec == Init /\ [][NextSmall]_vars /\ WF_vars(NextSmall)

(***************************************************************************)
(* Re-application: after a successful call, process_transactions is called *)
(* again with the same transactions and range, on a store that was empty   *)
(* before the first call.                                                  *)
(***************************************************************************)
InitReapply == Init /\ store = {}

Reapply ==
    /\ pc = "done"
    /\ result.ok
    /\ calls < MaxReapply
    /\ \E collapsed \in CollapseResults(wsc_details) :
          LET b == HandedBatches(handed.txns, txn_details, handed.events, handed.wscs,
                                 collapsed)
              c == [IdleRun(store) EXCEPT !.pc = "begin", !.attempt = 1, !.batches = b]
          IN  /\ handed' = b
              /\ SetRun(c)
              /\ shadow' = c
    /\ calls' = calls + 1
    /\ firstStore' = IF calls = 0 THEN store ELSE firstStore
    /\ store0' = store
    /\ sinkDiffered' = FALSE
    /\ UNCHANGED <<start_version, end_version, txn_details, wsc_details, poolVars>>

NextReapply == SmallCall \/ Begin \/ Body \/ Commit \/ Sanitize \/ Return \/ Reapply

SpecReapply == InitReapply /\ [][NextReapply]_vars

(***************************************************************************)
(* Concurrent workers: each calls process_transactions on its own batch,   *)
(* over one connection pool and one store.                                 *)
(***************************************************************************)
Workers == 1..NumWorkers

\* Two ranges whose batches write the table item (1, 1).
PoolInputs == {in \in SmallInputs : in.raw # <<>>}

WorkerOf(c, sv, ev) == [run |-> c, start_version |-> sv, end_version |-> ev]

\* The run of worker w on the shared store.
RunOf(w) == [workers[w].run EXCEPT !.store = store]

\* self.get_conn() (line 122): a connection is taken from the pool.
get_conn(idle) == idle - 1

\* Mutant: the connection is given back only when the write succeeded.
DropConnOnSuccessOnly(txr, h) == IF txr = "Ok" THEN 0 ELSE h

\* Line 154: conn goes out of scope when process_transactions returns;
\* what the worker holds afterwards.
DropConn(txr, h) == 0

InitPool ==
    /\ pc = "idle"
    /\ start_version = 0
    /\ end_version = 0
    /\ txn_details = <<>>
    /\ wsc_details = <<>>
    /\ handed = EmptyBatches
    /\ batches = EmptyBatches
    /\ attempt = 0
    /\ store = {}
    /\ store0 = store
    /\ pending = {}
    /\ txOpen = FALSE
    /\ tx_result = "unset"
    /\ result = NoResult
    /\ sendCalls = <<>>
    /\ log = <<>>
    /\ shadow = IdleRun(store)
    /\ sinkDiffered = FALSE
    /\ calls = 0
    /\ firstStore = {}
    /\ workers = [w \in Workers |-> WorkerOf(IdleRun({}), 0, 0)]
    /\ pool = PoolSize
    /\ held = [w \in Workers |-> 0]

poolFrame == <<pc, start_version, end_version, txn_details, wsc_details, handed,
               batches, attempt, store0, pending, txOpen, tx_result, result,
               sendCalls, log, shadow, sinkDiffered, reapplyVars>>

\* Lines 65-121 of a worker's call: the batches are built.
WorkerCall ==
    \E w \in Workers :
      /\ workers[w].run.pc = "idle"
      /\ \E in \in PoolInputs :
            LET d == from_transactions(in.sv, in.raw, in.wscd)
            IN  \E collapsed \in CollapseResults(d.wsc_details) :
                  LET b == HandedBatches(d.txns, d.txn_details, d.events, d.wscs, collapsed)
                      c == [IdleRun({}) EXCEPT !.pc = "get_conn", !.attempt = 1,
                                               !.batches = b]
                  IN  workers' = [workers EXCEPT
                                    ![w] = WorkerOf(c, in.sv, in.sv + Len(in.raw) - 1)]
      /\ UNCHANGED <<poolFrame, store, pool, held>>

\* Line 122: the worker waits until the pool has an idle connection.
WorkerGetConn ==
    \E w \in Workers :
      /\ workers[w].run.pc = "get_conn"
      /\ pool > 0
      /\ pool' = get_conn(pool)
      /\ held' = [held EXCEPT ![w] = @ + 1]
      /\ workers' = [workers EXCEPT ![w].run.pc = "begin"]
      /\ UNCHANGED <<poolFrame, store>>

\* A step of insert_to_db by worker w at position p, on the connection it holds.
WorkerStep(w, p, dbOk, sinkOk) ==
    /\ workers[w].run.pc = p
    /\ LET c == StepRun(RunOf(w), dbOk, sinkOk,
                        workers[w].start_version, workers[w].end_version)
       IN  /\ store' = c.store
           /\ workers' = [workers EXCEPT ![w].run = [c EXCEPT !.store = {}]]
    /\ UNCHANGED <<poolFrame, pool, held>>

WorkerBegin == \E w \in Workers, dbOk \in BOOLEAN : WorkerStep(w, "begin", dbOk, TRUE)

WorkerBody == \E w \in Workers, sinkOk \in BOOLEAN : WorkerStep(w, "body", TRUE, sinkOk)

WorkerCommit == \E w \in Workers, dbOk \in BOOLEAN : WorkerStep(w, "commit", dbOk, TRUE)

\* Lines 217-232: the retry runs on the same conn; nothing is taken from the pool.
WorkerSanitize == \E w \in Workers : WorkerStep(w, "sanitize", TRUE, TRUE)

\* Lines 141-154: the result is built and conn is dropped.
WorkerReturn ==
    \E w \in Workers :
      /\ workers[w].run.pc = "return"
      /\ LET c == ReturnResult(workers[w].run, workers[w].start_version,
                               workers[w].end_version)
             h == DropConn(c.tx_result, held[w])
         IN  /\ workers' = [workers EXCEPT ![w].run = c]
             /\ held' = [held EXCEPT ![w] = h]
             /\ pool' = pool + (held[w] - h)
      /\ UNCHANGED <<poolFrame, store>>

NextPool ==
    \/ WorkerCall
    \/ WorkerGetConn
    \/ WorkerBegin
    \/ WorkerBody
    \/ WorkerCommit
    \/ WorkerSanitize
    \/ WorkerReturn

SpecPool == InitPool /\ [][NextPool]_vars

(***************************************************************************)
(* The collapse specification: the inputs are drawn in the initial state   *)
(* and the step applies lines 88-120 to them.                              *)
(***************************************************************************)
WscChoices ==
    {ModuleDetail(<<1>>), ResourceDetail(<<2>>)}
    \cup {TableDetail(h, k, v, None) : h \in Handles, k \in KeyHashes, v \in {<<1>>, <<2>>}}
    \cup {TableDetail(h, 1, <<1>>, Some(TableMeta(h, t))) : h \in Handles, t \in {<<1>>, <<2>>}}

InitCollapse ==
    /\ pc = "collapse"
    /\ wsc_details \in SeqsUpTo(WscChoices, MaxWsc)
    /\ start_version = 0
    /\ end_version = 0
    /\ handed = EmptyBatches
    /\ batches = EmptyBatches
    /\ attempt = 0
    /\ store = {}
    /\ store0 = {}
    /\ pending = {}
    /\ txOpen = FALSE
    /\ tx_result = "unset"
    /\ result = NoResult
    /\ sendCalls = <<>>
    /\ log = <<>>
    /\ shadow = IdleRun({})
    /\ sinkDiffered = FALSE
    /\ txn_details = <<>>
    /\ calls = 0
    /\ firstStore = {}
    /\ workers = <<>>
    /\ pool = 0
    /\ held = <<>>

CollapseStep ==
    /\ pc = "collapse"
    /\ \E collapsed \in CollapseResults(wsc_details) :
          handed' = HandedBatches(<<>>, <<>>, <<>>, <<>>, collapsed)
    /\ pc' = "collapsed"
    /\ UNCHANGED <<start_version, end_version, txn_details, wsc_details, batches,
                   attempt, store, store0, pending, txOpen, tx_result, result,
                   sendCalls, log, shadow, sinkDiffered, reapplyVars, poolVars>>

NextCollapse == CollapseStep

SpecCollapse == InitCollapse /\ [][NextCollapse]_vars

(***************************************************************************)
(* The details specification: the transaction details are drawn in the     *)
(* initial state and the step applies lines 74-87 to them.                 *)
(***************************************************************************)
SigIds == {1, 2}

DetailShapes ==
    {[kind |-> "User", sigs |-> g] : g \in SeqsUpTo(SigIds, MaxSigs)}
    \cup {[kind |-> "BlockMetadata", sigs |-> <<>>]}

\* The detail of the transaction at version v: TransactionDetail::User(user_txn,
\* sigs) or TransactionDetail::BlockMetadata(bmt).
DetailOf(v, shape) ==
    IF shape.kind = "User"
    THEN [kind |-> "User",
          user_txn |-> [version |-> v, sender |-> <<1>>],
          sigs |-> [k \in 1..Len(shape.sigs) |->
                      [version |-> v, signature |-> <<shape.sigs[k]>>]]]
    ELSE [kind |-> "BlockMetadata", bmt |-> [version |-> v, proposer |-> <<2>>]]

InitDetails ==
    /\ pc = "flatten"
    /\ \E shapes \in SeqsUpTo(DetailShapes, MaxDetails) :
          txn_details = [i \in 1..Len(shapes) |-> DetailOf(i, shapes[i])]
    /\ wsc_details = <<>>
    /\ start_version = 0
    /\ end_version = 0
    /\ handed = EmptyBatches
    /\ batches = EmptyBatches
    /\ attempt = 0
    /\ store = {}
    /\ store0 = {}
    /\ pending = {}
    /\ txOpen = FALSE
    /\ tx_result = "unset"
    /\ result = NoResult
    /\ sendCalls = <<>>
    /\ log = <<>>
    /\ shadow = IdleRun({})
    /\ sinkDiffered = FALSE
    /\ calls = 0
    /\ firstStore = {}
    /\ workers = <<>>
    /\ pool = 0
    /\ held = <<>>

DetailsStep ==
    /\ pc = "flatten"
    /\ \E collapsed \in CollapseResults(wsc_details) :
          handed' = HandedBatches(<<>>, txn_details, <<>>, <<>>, collapsed)
    /\ pc' = "flattened"
    /\ UNCHANGED <<start_version, end_version, txn_details, wsc_details, batches,
                   attempt, store, store0, pending, txOpen, tx_result, result,
                   sendCalls, log, shadow, sinkDiffered, reapplyVars, poolVars>>

NextDetails == DetailsStep

SpecDetails == InitDetails /\ [][NextDetails]_vars

(***************************************************************************)
(* Claims about the driver, checked under Spec.                            *)
(***************************************************************************)
Finished == pc \in {"return", "done"}
Failed(i) == i <= Len(log) /\ log[i].outcome = "failed"
Committed(i) == i <= Len(log) /\ log[i].outcome = "committed"

(***************************************************************************)
(* C1  At most two write attempts are made in a call; the second is made   *)
(* if and only if the first failed, it starts with no storage transaction  *)
(* open and nothing pending, and no third attempt follows it, whatever its *)
(* outcome.                                                                *)
(***************************************************************************)
AtMostTwoAttempts ==
    /\ attempt <= 2
    /\ Len(log) <= 2
    /\ \A i \in 1..Len(log) : log[i].attempt = i
    /\ attempt = 2 => Failed(1)
    /\ Finished /\ Failed(1) => Len(log) = 2
    /\ Finished /\ Committed(1) => Len(log) = 1 /\ attempt = 1
    /\ pc = "begin" => ~txOpen /\ pending = {}

\* Both attempts were made and the second failed too.
TwoAttemptsWitness ==
    pc = "done" /\ Len(log) = 2 /\ Failed(1) /\ Failed(2)

(***************************************************************************)
(* C2  process_transactions returns Ok only if one of its write attempts   *)
(* committed; the result carries the processor name and the start_version  *)
(* and end_version of the call; a call whose attempts all failed does not  *)
(* return Ok.                                                              *)
(***************************************************************************)
SuccessOnlyAfterCommit ==
    pc = "done" =>
        /\ result.ok =>
              /\ \E i \in 1..Len(log) : Committed(i)
              /\ result.processor_name = NAME
              /\ result.start_version = start_version
              /\ result.end_version = end_version
        /\ (\A i \in 1..Len(log) : Failed(i)) => ~result.ok

\* Success through the retry, for a range of two versions.
SuccessWitness ==
    pc = "done" /\ result.ok /\ Failed(1) /\ Committed(2) /\ start_version # end_version

(***************************************************************************)
(* C3  If the first attempt and the sanitized retry both fail, the call    *)
(* returns a TransactionCommitError with the start_version and end_version *)
(* of the call and the processor's NAME.                                   *)
(***************************************************************************)
FatalErrorCarriesRange ==
    pc = "done" /\ Failed(1) /\ Failed(2) =>
        /\ ~result.ok
        /\ result.cause # "none"
        /\ result.start_version = start_version
        /\ result.end_version = end_version
        /\ result.processor_name = NAME

\* A fatal error for a range of two versions whose batches the sanitize pass changed.
FatalWitness ==
    /\ pc = "done" /\ Failed(1) /\ Failed(2)
    /\ start_version # end_version
    /\ batches # handed

(***************************************************************************)
(* C4  As claimed: the fatal error carries the error with which the first  *)
(* write attempt failed.                                                   *)
(***************************************************************************)
FatalCarriesFirstCause ==
    pc = "done" /\ Failed(1) /\ Failed(2) => result.cause = log[1].cause

(***************************************************************************)
(* C4  As amended: the fatal error carries the error with which the        *)
(* sanitized retry failed; the first attempt's error is dropped.           *)
(***************************************************************************)
FatalCarriesRetryCause ==
    pc = "done" /\ Failed(1) /\ Failed(2) => result.cause = log[2].cause

\* The two attempts failed with different errors.
DifferentCausesWitness ==
    pc = "done" /\ Failed(1) /\ Failed(2) /\ log[1].cause # log[2].cause

(***************************************************************************)
(* C5  As claimed: an attempt that committed has written every entity of   *)
(* its eleven batches to the store, so after a successful call every       *)
(* entity of the range is in the store.                                    *)
(***************************************************************************)
CommitWritesAllBatches ==
    /\ \A i \in 1..Len(log) : Committed(i) => RowsOf(log[i].batches) \subseteq store
    /\ pc = "done" /\ result.ok => RowsOf(batches) \subseteq store

(***************************************************************************)
(* C6  Atomicity: while every finished attempt has failed the store is     *)
(* what it was when the call was made (so it is after a fatal error), and  *)
(* after a failed first attempt and a committed retry the store holds, on  *)
(* top of that, only entities of the retry's sanitized batches.            *)
(***************************************************************************)
FailedAttemptLeavesNothing ==
    /\ (\A i \in 1..Len(log) : Failed(i)) => store = store0
    /\ Failed(1) /\ Committed(2) =>
          /\ store0 \subseteq store
          /\ (store \ store0) \subseteq RowsOf(SanitizeAll(handed))

\* A fatal error after the body of the first attempt ran on a non-empty batch.
RolledBackWitness ==
    /\ pc = "done" /\ Failed(1) /\ Failed(2)
    /\ log[1].cause = "commit_failed"
    /\ handed.txns # <<>>
    /\ store0 # {}

(***************************************************************************)
(* C7  As claimed: whenever the call returns the fatal error, send_txs has *)
(* been invoked with the whole transaction batch (as handed over or as     *)
(* sanitized).                                                             *)
(***************************************************************************)
ForwarderInvokedBeforeFatal ==
    pc = "done" /\ Failed(1) /\ Failed(2) =>
        \E i \in 1..Len(sendCalls) :
            sendCalls[i].records \in {handed.txns, clean_data_for_db(handed.txns)}

(***************************************************************************)
(* C8  As claimed: no call of send_txs is made while the storage           *)
(* transaction of a write attempt is open.                                 *)
(***************************************************************************)
SendOutsideStorageTransaction ==
    \A i \in 1..Len(sendCalls) : ~sendCalls[i].txOpen

(***************************************************************************)
(* C9  The sink's outcome does not gate the driver: a second run with the  *)
(* same storage outcomes and sink outcomes of its own is at the same       *)
(* position, with the same attempts, commits, roll-backs, store and        *)
(* result.                                                                 *)
(***************************************************************************)
SinkOutcomeDoesNotGate ==
    shadow = [Run EXCEPT !.sendCalls = <<>>]

\* The call has returned and the two runs saw different sink outcomes.
SinkDifferedWitness ==
    pc = "done" /\ sinkDiffered /\ Len(sendCalls) = 2

(***************************************************************************)
(* C10  Collapse correctness (last write wins): current_table_items holds  *)
(* exactly one entry for each (table_handle, key_hash) of some Table       *)
(* detail and no other entry, and that entry is the current item of the    *)
(* last Table detail with that key.                                        *)
(***************************************************************************)
TableIdx(details) == {i \in 1..Len(details) : details[i].kind = "Table"}
KeyOf(item) == <<item.table_handle, item.key_hash>>
LastIdxWithKey(details, key) ==
    CHOOSE i \in TableIdx(details) :
        /\ KeyOf(details[i].current_item) = key
        /\ \A j \in TableIdx(details) : KeyOf(details[j].current_item) = key => j <= i

CollapseLastWriteWins ==
    pc = "collapsed" =>
        LET cti == handed.current_table_items
            keys == {KeyOf(wsc_details[i].current_item) : i \in TableIdx(wsc_details)}
        IN  /\ {KeyOf(cti[i]) : i \in 1..Len(cti)} = keys
            /\ Len(cti) = Cardinality(keys)
            /\ \A i \in 1..Len(cti) :
                  cti[i] = wsc_details[LastIdxWithKey(wsc_details, KeyOf(cti[i]))].current_item

\* A key written twice with different values has been collapsed.
CollapseWitness ==
    /\ pc = "collapsed"
    /\ \E i, j \in TableIdx(wsc_details) :
          /\ i < j
          /\ KeyOf(wsc_details[i].current_item) = KeyOf(wsc_details[j].current_item)
          /\ wsc_details[i].current_item # wsc_details[j].current_item
    /\ Len(handed.current_table_items) >= 2

(***************************************************************************)
(* C11  Deterministic ordering: current_table_items is strictly ascending  *)
(* by (table_handle, key_hash), table_metadata is strictly ascending by    *)
(* handle, and every order in which the unordered maps can be iterated     *)
(* yields the same two sequences.                                          *)
(***************************************************************************)
StrictlyAscending(s, by) == \A i \in 1..(Len(s) - 1) : Less(s[i], s[i + 1], by)

CollapseOrderDeterministic ==
    pc = "collapsed" =>
        /\ StrictlyAscending(handed.current_table_items, "pk")
        /\ StrictlyAscending(handed.table_metadata, "handle")
        /\ \A r \in CollapseResults(wsc_details) :
              /\ r.current_table_items = handed.current_table_items
              /\ r.table_metadata = handed.table_metadata

\* Keys and handles arrived in descending order and were put in ascending order.
OrderWitness ==
    /\ pc = "collapsed"
    /\ Len(handed.current_table_items) = 2
    /\ Len(handed.table_metadata) = 2
    /\ \E i, j \in TableIdx(wsc_details) :
          /\ i < j
          /\ PkLess(wsc_details[j].current_item, wsc_details[i].current_item)
          /\ wsc_details[i].metadata # None /\ wsc_details[j].metadata # None

(***************************************************************************)
(* C15  table_metadata has an entry for a handle if and only if some Table *)
(* detail carries metadata for that handle; there is one entry per such    *)
(* handle, the metadata of the last such detail; a Table detail without    *)
(* metadata adds and removes nothing.                                      *)
(***************************************************************************)
MetaIdx(details) == {i \in TableIdx(details) : details[i].metadata # None}
LastMetaIdx(details, h) ==
    CHOOSE i \in MetaIdx(details) :
        /\ details[i].metadata[1].handle = h
        /\ \A j \in MetaIdx(details) : details[j].metadata[1].handle = h => j <= i

TableMetadataLastSome ==
    pc = "collapsed" =>
        LET tm == handed.table_metadata
            handles == {wsc_details[i].metadata[1].handle : i \in MetaIdx(wsc_details)}
        IN  /\ {tm[i].handle : i \in 1..Len(tm)} = handles
            /\ Len(tm) = Cardinality(handles)
            /\ \A i \in 1..Len(tm) :
                  tm[i] = wsc_details[LastMetaIdx(wsc_details, tm[i].handle)].metadata[1]

\* A handle with two different metadata, followed by a Table detail of the same
\* handle without metadata.
MetadataWitness ==
    /\ pc = "collapsed"
    /\ \E i, j, k \in TableIdx(wsc_details) :
          /\ i < j /\ j < k
          /\ wsc_details[i].metadata # None /\ wsc_details[j].metadata # None
          /\ wsc_details[i].metadata[1].handle = wsc_details[j].metadata[1].handle
          /\ wsc_details[i].metadata # wsc_details[j].metadata
          /\ wsc_details[k].metadata = None
          /\ wsc_details[k].item.table_handle = wsc_details[j].metadata[1].handle
    /\ Len(handed.table_metadata) = 1

(***************************************************************************)
(* C17  move_modules, move_resources and table_items are the Module,       *)
(* Resource and Table payloads of the details, in their relative order and *)
(* with duplicates kept; table_items is not collapsed.                     *)
(***************************************************************************)
KindIdx(details, kind) == {i \in 1..Len(details) : details[i].kind = kind}

\* s is the sequence of the payloads details[i][field] of the details of the
\* kind, in their order.
IsProjection(s, details, kind, field) ==
    /\ Len(s) = Cardinality(KindIdx(details, kind))
    /\ \A i \in KindIdx(details, kind) :
          s[Cardinality({j \in KindIdx(details, kind) : j <= i})] = details[i][field]

FlattenKeepsOrder ==
    pc = "collapsed" =>
        /\ IsProjection(handed.move_modules, wsc_details, "Module", "module")
        /\ IsProjection(handed.move_resources, wsc_details, "Resource", "resource")
        /\ IsProjection(handed.table_items, wsc_details, "Table", "item")

\* The same Table write twice, next to a module: both kept in table_items,
\* collapsed to one entry in current_table_items.
FlattenWitness ==
    /\ pc = "collapsed"
    /\ Len(handed.table_items) = 2
    /\ handed.table_items[1] = handed.table_items[2]
    /\ Len(handed.current_table_items) = 1
    /\ Len(handed.move_modules) = 1

(***************************************************************************)
(* C18  user_transactions and block_metadata_transactions are the User and *)
(* BlockMetadata records in transaction order, their lengths sum to the    *)
(* number of transactions, and signatures is the concatenation, in         *)
(* transaction order, of the signature sequences of the User details.      *)
(***************************************************************************)
\* Number of signatures of the details before the i-th.
SigsBefore(details, i) ==
    LET count[n \in 0..Len(details)] ==
            IF n = 0 THEN 0
            ELSE count[n - 1] + (IF details[n].kind = "User" THEN Len(details[n].sigs) ELSE 0)
    IN  count[i - 1]

DetailsFlattenedInOrder ==
    pc = "flattened" =>
        /\ IsProjection(handed.user_transactions, txn_details, "User", "user_txn")
        /\ IsProjection(handed.block_metadata_transactions, txn_details, "BlockMetadata", "bmt")
        /\ Len(handed.user_transactions) + Len(handed.block_metadata_transactions)
              = Len(txn_details)
        /\ Len(handed.signatures) = SigsBefore(txn_details, Len(txn_details) + 1)
        /\ \A i \in KindIdx(txn_details, "User") :
              \A k \in 1..Len(txn_details[i].sigs) :
                  handed.signatures[SigsBefore(txn_details, i) + k] = txn_details[i].sigs[k]

\* A user transaction with one signature, a block-metadata transaction, a user
\* transaction with two signatures.
DetailsWitness ==
    /\ pc = "flattened"
    /\ Len(txn_details) = 3
    /\ txn_details[1].kind = "User" /\ Len(txn_details[1].sigs) = 1
    /\ txn_details[2].kind = "BlockMetadata"
    /\ txn_details[3].kind = "User" /\ Len(txn_details[3].sigs) = 2
    /\ txn_details[3].sigs[1] # txn_details[3].sigs[2]
    /\ Len(handed.signatures) = 3

(***************************************************************************)
(* C16  The sanitize pass is applied if and only if the first attempt      *)
(* failed, and then to every one of the eleven batches: the first attempt  *)
(* runs on the batches as handed over, the retry on batches that are all   *)
(* sanitized, of the same sizes and in the same order (the order of        *)
(* current_table_items and table_metadata included).                       *)
(***************************************************************************)
\* b is a, every item sanitized, item by item.
SanitizedFrom(b, a) ==
    \A f \in BatchNames :
        /\ Len(b[f]) = Len(a[f])
        /\ \A i \in 1..Len(a[f]) : b[f][i] = CleanItem(a[f][i])

SameKeyOrder(b, a) ==
    /\ [i \in 1..Len(b.current_table_items) |-> KeyOf(b.current_table_items[i])]
          = [i \in 1..Len(a.current_table_items) |-> KeyOf(a.current_table_items[i])]
    /\ [i \in 1..Len(b.table_metadata) |-> b.table_metadata[i].handle]
          = [i \in 1..Len(a.table_metadata) |-> a.table_metadata[i].handle]

SanitizeUniformOnRetry ==
    /\ attempt = 1 => batches = handed
    /\ attempt = 2 => Failed(1) /\ SanitizedFrom(batches, handed) /\ SameKeyOrder(batches, handed)
    /\ Len(log) >= 1 => log[1].batches = handed
    /\ Len(log) = 2 => SanitizedFrom(log[2].batches, handed)
    /\ Finished /\ Committed(1) => batches = handed
    /\ \A i \in 1..Len(sendCalls) :
          sendCalls[i].records =
              IF sendCalls[i].attempt = 1 THEN handed.txns ELSE clean_data_for_db(handed.txns)

\* The retry ran on batches the sanitize pass changed, transactions included,
\* with two ordered current table items.
SanitizeWitness ==
    /\ pc = "done" /\ Len(log) = 2
    /\ handed.txns # log[2].batches.txns
    /\ handed.current_table_items # log[2].batches.current_table_items
    /\ Len(handed.current_table_items) = 2

(***************************************************************************)
(* C19  send_txs is called once in every write attempt whose transaction   *)
(* body runs, so at most twice in a call: once when the first attempt      *)
(* commits; a second time, with the sanitized records, when the first      *)
(* attempt failed after its body ran; a call made in an attempt that is    *)
(* rolled back stays made.                                                 *)
(***************************************************************************)
BodyRan(i) == i <= Len(log) /\ log[i].cause # "begin_failed"
SendsOf(i) == {j \in 1..Len(sendCalls) : sendCalls[j].attempt = i}

SinkSentOncePerBody ==
    /\ Len(sendCalls) <= 2
    /\ \A i \in 1..Len(log) :
          /\ Cardinality(SendsOf(i)) = IF BodyRan(i) THEN 1 ELSE 0
          /\ \A j \in SendsOf(i) : sendCalls[j].records = log[i].batches.txns
    /\ Finished /\ Committed(1) => Len(sendCalls) = 1
    /\ Finished /\ BodyRan(1) /\ Failed(1) /\ BodyRan(2) =>
          /\ Len(sendCalls) = 2
          /\ sendCalls[1].records = handed.txns
          /\ sendCalls[2].records = clean_data_for_db(handed.txns)

\* Two sends in one call, the first from an attempt that was rolled back, the
\* second with records the sanitize pass changed.
SentTwiceWitness ==
    /\ pc = "done"
    /\ Failed(1) /\ BodyRan(1) /\ BodyRan(2)
    /\ Len(sendCalls) = 2
    /\ sendCalls[1].records # sendCalls[2].records

(***************************************************************************)
(* C14  Idempotent re-application: when a call with the same input as an   *)
(* earlier successful call on an initially empty store has succeeded too,  *)
(* the store holds the same rows as after the first call.                  *)
(***************************************************************************)
ReapplyLeavesSameRows ==
    calls >= 1 /\ pc = "done" /\ result.ok => store = firstStore

\* The second call of a non-empty range succeeded through its retry.
ReapplyWitness ==
    /\ calls = 1 /\ pc = "done" /\ result.ok
    /\ Failed(1) /\ log[1].cause = "commit_failed" /\ Committed(2)
    /\ handed.txns # <<>>
    /\ batches # handed

(***************************************************************************)
(* C20  Every call reaches a terminal outcome, Success or Fatal, and stays *)
(* there; on the way it is in the initial attempt and then, if that        *)
(* failed, in the sanitized attempt: it never goes back to the initial     *)
(* attempt, and Fatal is reached from the sanitized attempt only.          *)
(***************************************************************************)
Phase ==
    CASE pc = "idle" -> "NotCalled"
      [] pc \in {"begin", "body", "commit", "sanitize"} ->
            IF attempt = 1 THEN "Initial" ELSE "Sanitized"
      [] pc \in {"return", "done"} -> IF tx_result = "Ok" THEN "Success" ELSE "Fatal"
      [] OTHER -> "Other"

PhaseSteps ==
    {<<"NotCalled", "Initial">>, <<"Initial", "Sanitized">>, <<"Initial", "Success">>,
     <<"Sanitized", "Success">>, <<"Sanitized", "Fatal">>}

CallReachesOneTerminal ==
    /\ [](Phase \in {"Initial", "Sanitized"} => <>(pc = "done"))
    /\ [][Phase' = Phase \/ <<Phase, Phase'>> \in PhaseSteps]_vars
    /\ [][pc = "done" => pc' = "done" /\ result' = result]_vars
    /\ [](pc = "done" => (Phase = "Success" <=> result.ok))

\* A call that went through both attempts has returned the fatal error.
TerminalWitness ==
    pc = "done" /\ Phase = "Fatal" /\ attempt = 2 /\ Len(log) = 2

(***************************************************************************)
(* C13  One pool, several workers: a worker holds exactly one connection   *)
(* from get_conn until process_transactions returns, through the initial   *)
(* attempt and the retry, and none before or after; the connections held   *)
(* and the idle ones add up to the pool size.                              *)
(***************************************************************************)
HeldTotal ==
    LET sum[n \in 0..NumWorkers] == IF n = 0 THEN 0 ELSE sum[n - 1] + held[n]
    IN  sum[NumWorkers]

InCall(w) == workers[w].run.pc \in {"begin", "body", "commit", "sanitize", "return"}

OneConnectionPerCall ==
    /\ \A w \in Workers : held[w] = IF InCall(w) THEN 1 ELSE 0
    /\ pool >= 0
    /\ HeldTotal <= PoolSize
    /\ pool + HeldTotal = PoolSize

\* The pool is exhausted by a worker whose retry has failed, another worker
\* is waiting in get_conn.
PoolExhaustedWitness ==
    \E w1, w2 \in Workers :
      /\ workers[w1].run.pc = "return" /\ workers[w1].run.attempt = 2
      /\ workers[w1].run.tx_result # "Ok" /\ held[w1] = 1
      /\ workers[w2].run.pc = "get_conn"
      /\ pool = 0

(***************************************************************************)
(* C12  Concurrent writers do not deadlock on row locks because each has   *)
(* written the keyed rows of its batches (current table items, table       *)
(* metadata) inside its transaction, and no two writers wait for each      *)
(* other.                                                                  *)
(***************************************************************************)
KeyedRowsOf(b) ==
    RowsOf([EmptyBatches EXCEPT !.current_table_items = b.current_table_items,
                                !.table_metadata = b.table_metadata])

\* Worker a has to write a keyed row that the open transaction of b has written.
WaitsFor(a, b) ==
    /\ a # b
    /\ workers[a].run.txOpen /\ workers[b].run.txOpen
    /\ workers[a].run.pc = "body"
    /\ KeyedRowsOf(workers[a].run.batches) \cap workers[b].run.pending # {}

====
